---- MODULE Spec2Model ----
(***************************************************************************)
(* Verification model of pptx.util (Length and its unit constructors,      *)
(* BulletStyle, lazyproperty) and of the enumerations of pptx.enum.text.   *)
(*                                                                         *)
(* Four specifications share the module's variables:                       *)
(*   Spec        lazyproperty: __get__ / __set__ on a few host instances   *)
(*   SpecLength  the unit constructors and the centipoints/emu accessors   *)
(*   SpecBullet  BulletStyle construction and __eq__                       *)
(*   SpecEnum    the member tables of the five enumerations                *)
(***************************************************************************)
EXTENDS Integers, Sequences, FiniteSets, TLC

(***************************************************************************)
(* Bounds of the model.                                                    *)
(***************************************************************************)
NumInstances == 2
MaxCalls == 2
MaxNum == 130
MaxStyles == 2

(***************************************************************************)
(* lazyproperty                                                            *)
(*                                                                         *)
(* A descriptor on a class with NumInstances host instances.  The wrapped   *)
(* computation reads the instance and an external state, the world; in the *)
(* world state "raise" it raises instead of returning.                     *)
(***************************************************************************)
VARIABLES
    dict,      \* dict[i]  : obj.__dict__ entry under self._name, or Absent
    world,     \* the external state the wrapped computation reads
    calls,     \* calls[i] : number of invocations of fget on instance i
    first,     \* first[i] : value returned by the first access that returned
    ret        \* outcome of the last operation

VARIABLES
    len_unit,  \* the unit constructor called
    len_x,     \* its numeric argument
    len_emu,   \* the int value of the constructed Length
    len_pc,    \* "input", "built", "read"
    len_view   \* the property read last and its value

VARIABLES
    bs_a,      \* left operand of ==, a BulletStyle
    bs_b,      \* right operand of ==, any object
    bs_pc,     \* "a", "b", "cmp", "done"
    bs_eq      \* result of bs_a == bs_b

VARIABLES
    en_name,   \* the enumeration in use
    en_pos,    \* members of its class body walked so far
    en_count,  \* members counted so far
    en_op,     \* the lookup made last
    en_query,  \* position of the member whose code or token was looked up
    en_found   \* position of the member the lookup returned, 0 when it failed

lazyVars == <<dict, world, calls, first, ret>>
lenVars == <<len_unit, len_x, len_emu, len_pc, len_view>>
bsVars == <<bs_a, bs_b, bs_pc, bs_eq>>
enVars == <<en_name, en_pos, en_count, en_op, en_query, en_found>>
vars == <<dict, world, calls, first, ret, len_unit, len_x, len_emu, len_pc, len_view,
          bs_a, bs_b, bs_pc, bs_eq, en_name, en_pos, en_count, en_op, en_query, en_found>>

Instances == 1..NumInstances

\* A Python value is a record: None, or the result fget computed for
\* instance obj when the external state was st.  Absent marks a key missing
\* from obj.__dict__, Unread an instance no access has returned on yet.
None == [obj |-> 0, st |-> "None"]
Absent == [obj |-> 0, st |-> "Absent"]
Unread == [obj |-> 0, st |-> "Unread"]

\* the states of the world the computation reads
WorldStates == {"None", "s1", "raise"}

\* what fget(obj) returns for instance i in world state w: None in state
\* "None", otherwise a result of that instance and that state
Result(i, w) == IF w = "None" THEN None ELSE [obj |-> i, st |-> w]

Results == {Result(i, w) : i \in Instances, w \in WorldStates \ {"raise"}}

\* the values a caller tries to assign: None and some other object
Assigned == {None, [obj |-> 0, st |-> "assigned"]}

NoRet == [op |-> "none", obj |-> 0, kind |-> "none", val |-> None]

\* obj.__dict__.get(self._name): the stored value, None when the key is absent
DictGet(d, i) == IF d[i] = Absent THEN None ELSE d[i]

\* `if value is None:` decides whether fget is evaluated
NeedsCompute(d, i) == DictGet(d, i) = None

\* a cache kept on the descriptor, shared by every instance (mutant of DictStore)
DictStoreShared(d, i, v) == [j \in Instances |-> v]

\* obj.__dict__[self._name] = value
DictStore(d, i, v) == [d EXCEPT ![i] = v]

\* self._fget(obj) raises in the current state of the world
fgetRaises == world = "raise"

\* self._fget(obj): the computation reads the instance and the world
fget(i) == Result(i, world)

\* an access that caches a placeholder when fget raises (mutant of Get)
GetCachesFailure(i) ==
    /\ IF NeedsCompute(dict, i)
       THEN /\ calls[i] < MaxCalls
            /\ calls' = [calls EXCEPT ![i] = @ + 1]
            /\ IF fgetRaises
               THEN /\ ret' = [op |-> "get", obj |-> i, kind |-> "error", val |-> None]
                    /\ dict' = DictStore(dict, i, [obj |-> i, st |-> "raise"])
                    /\ UNCHANGED first
               ELSE /\ dict' = DictStore(dict, i, fget(i))
                    /\ ret' = [op |-> "get", obj |-> i, kind |-> "value", val |-> fget(i)]
                    /\ first' = IF first[i] = Unread
                                THEN [first EXCEPT ![i] = fget(i)]
                                ELSE first
       ELSE /\ ret' = [op |-> "get", obj |-> i, kind |-> "value", val |-> DictGet(dict, i)]
            /\ UNCHANGED <<dict, calls, first>>
    /\ UNCHANGED <<world>>
    /\ UNCHANGED <<lenVars, bsVars, enVars>>

\* lazyproperty.__get__(obj, type) with obj an instance
Get(i) ==
    /\ IF NeedsCompute(dict, i)
       THEN /\ calls[i] < MaxCalls
            /\ calls' = [calls EXCEPT ![i] = @ + 1]
            /\ IF fgetRaises
               THEN /\ ret' = [op |-> "get", obj |-> i, kind |-> "error", val |-> None]
                    /\ UNCHANGED <<dict, first>>
               ELSE /\ dict' = DictStore(dict, i, fget(i))
                    /\ ret' = [op |-> "get", obj |-> i, kind |-> "value", val |-> fget(i)]
                    /\ first' = IF first[i] = Unread
                                THEN [first EXCEPT ![i] = fget(i)]
                                ELSE first
       ELSE /\ ret' = [op |-> "get", obj |-> i, kind |-> "value", val |-> DictGet(dict, i)]
            /\ UNCHANGED <<dict, calls, first>>
    /\ UNCHANGED <<world>>
    /\ UNCHANGED <<lenVars, bsVars, enVars>>

\* a class access that goes on to None.__dict__ (mutant of ClassGet)
ClassGetNoGuard ==
    /\ ret' = [op |-> "classget", obj |-> 0, kind |-> "error", val |-> None]
    /\ UNCHANGED <<dict, world, calls, first>>
    /\ UNCHANGED <<lenVars, bsVars, enVars>>

\* lazyproperty.__get__(None, type): access on the class
ClassGet ==
    /\ ret' = [op |-> "classget", obj |-> 0, kind |-> "descriptor", val |-> None]
    /\ UNCHANGED <<dict, world, calls, first>>
    /\ UNCHANGED <<lenVars, bsVars, enVars>>

\* an assignment that is let through to the instance __dict__ (mutant of Set)
SetStores(i, v) ==
    /\ dict' = [dict EXCEPT ![i] = v]
    /\ ret' = [op |-> "set", obj |-> i, kind |-> "ok", val |-> None]
    /\ UNCHANGED <<world, calls, first>>
    /\ UNCHANGED <<lenVars, bsVars, enVars>>

\* lazyproperty.__set__(obj, value)
Set(i, v) ==
    /\ ret' = [op |-> "set", obj |-> i, kind |-> "AttributeError", val |-> None]
    /\ UNCHANGED <<dict, world, calls, first>>
    /\ UNCHANGED <<lenVars, bsVars, enVars>>

\* the external state the computation depends on changes
ChangeWorld(w) ==
    /\ world # w
    /\ world' = w
    /\ UNCHANGED <<dict, calls, first, ret>>
    /\ UNCHANGED <<lenVars, bsVars, enVars>>

(***************************************************************************)
(* The enumerations of pptx.enum.text                                      *)
(*                                                                         *)
(* A class body is the sequence of its member definitions, in source       *)
(* order: name, numeric code (the first tuple item) and XML token (the     *)
(* second item of a BaseXmlEnum member; a BaseEnum member has none).       *)
(***************************************************************************)
\* a BaseEnum member has a numeric code only
NoXmlValue == "(no xml_value)"

\* class MSO_AUTO_SIZE(BaseEnum)
MSO_AUTO_SIZE ==
    <<
       [name |-> "NONE", value |-> 0, xml_value |-> NoXmlValue],
       [name |-> "SHAPE_TO_FIT_TEXT", value |-> 1, xml_value |-> NoXmlValue],
       [name |-> "TEXT_TO_FIT_SHAPE", value |-> 2, xml_value |-> NoXmlValue],
       [name |-> "MIXED", value |-> -2, xml_value |-> NoXmlValue]
    >>

\* class MSO_TEXT_UNDERLINE_TYPE(BaseXmlEnum)
MSO_TEXT_UNDERLINE_TYPE ==
    <<
       [name |-> "NONE", value |-> 0, xml_value |-> "none"],
       [name |-> "DASH_HEAVY_LINE", value |-> 8, xml_value |-> "dashHeavy"],
       [name |-> "DASH_LINE", value |-> 7, xml_value |-> "dash"],
       [name |-> "DASH_LONG_HEAVY_LINE", value |-> 10, xml_value |-> "dashLongHeavy"],
       [name |-> "DASH_LONG_LINE", value |-> 9, xml_value |-> "dashLong"],
       [name |-> "DOT_DASH_HEAVY_LINE", value |-> 12, xml_value |-> "dotDashHeavy"],
       [name |-> "DOT_DASH_LINE", value |-> 11, xml_value |-> "dotDash"],
       [name |-> "DOT_DOT_DASH_HEAVY_LINE", value |-> 14, xml_value |-> "dotDotDashHeavy"],
       [name |-> "DOT_DOT_DASH_LINE", value |-> 13, xml_value |-> "dotDotDash"],
       [name |-> "DOTTED_HEAVY_LINE", value |-> 6, xml_value |-> "dottedHeavy"],
       [name |-> "DOTTED_LINE", value |-> 5, xml_value |-> "dotted"],
       [name |-> "DOUBLE_LINE", value |-> 3, xml_value |-> "dbl"],
       [name |-> "HEAVY_LINE", value |-> 4, xml_value |-> "heavy"],
       [name |-> "SINGLE_LINE", value |-> 2, xml_value |-> "sng"],
       [name |-> "WAVY_DOUBLE_LINE", value |-> 17, xml_value |-> "wavyDbl"],
       [name |-> "WAVY_HEAVY_LINE", value |-> 16, xml_value |-> "wavyHeavy"],
       [name |-> "WAVY_LINE", value |-> 15, xml_value |-> "wavy"],
       [name |-> "WORDS", value |-> 1, xml_value |-> "words"],
       [name |-> "MIXED", value |-> -2, xml_value |-> ""]
    >>

\* MIDDLE given the code of TOP (mutant of MSO_VERTICAL_ANCHOR)
MSO_VERTICAL_ANCHOR_DupCode ==
    <<
       [name |-> "TOP", value |-> 1, xml_value |-> "t"],
       [name |-> "MIDDLE", value |-> 1, xml_value |-> "ctr"],
       [name |-> "BOTTOM", value |-> 4, xml_value |-> "b"],
       [name |-> "MIXED", value |-> -2, xml_value |-> ""]
    >>

\* the class body without its MIXED member (mutant of MSO_VERTICAL_ANCHOR)
MSO_VERTICAL_ANCHOR_NoMixed ==
    <<
       [name |-> "TOP", value |-> 1, xml_value |-> "t"],
       [name |-> "MIDDLE", value |-> 3, xml_value |-> "ctr"],
       [name |-> "BOTTOM", value |-> 4, xml_value |-> "b"]
    >>

\* class MSO_VERTICAL_ANCHOR(BaseXmlEnum)
MSO_VERTICAL_ANCHOR ==
    <<
       [name |-> "TOP", value |-> 1, xml_value |-> "t"],
       [name |-> "MIDDLE", value |-> 3, xml_value |-> "ctr"],
       [name |-> "BOTTOM", value |-> 4, xml_value |-> "b"],
       [name |-> "MIXED", value |-> -2, xml_value |-> ""]
    >>

\* class PP_PARAGRAPH_ALIGNMENT(BaseXmlEnum)
PP_PARAGRAPH_ALIGNMENT ==
    <<
       [name |-> "CENTER", value |-> 2, xml_value |-> "ctr"],
       [name |-> "DISTRIBUTE", value |-> 5, xml_value |-> "dist"],
       [name |-> "JUSTIFY", value |-> 4, xml_value |-> "just"],
       [name |-> "JUSTIFY_LOW", value |-> 7, xml_value |-> "justLow"],
       [name |-> "LEFT", value |-> 1, xml_value |-> "l"],
       [name |-> "RIGHT", value |-> 3, xml_value |-> "r"],
       [name |-> "THAI_DISTRIBUTE", value |-> 6, xml_value |-> "thaiDist"],
       [name |-> "MIXED", value |-> -2, xml_value |-> ""]
    >>

\* class MSO_NUMBERED_BULLET_STYLE(BaseXmlEnum)
MSO_NUMBERED_BULLET_STYLE ==
    <<
       [name |-> "ALPHA_LC_PAREN_BOTH", value |-> 8, xml_value |-> "alphaLCParenBoth"],
       [name |-> "ALPHA_LC_PAREN_RIGHT", value |-> 9, xml_value |-> "alphaLCParenRight"],
       [name |-> "ALPHA_LC_PERIOD", value |-> 0, xml_value |-> "alphaLCPeriod"],
       [name |-> "ALPHA_UC_PAREN_BOTH", value |-> 10, xml_value |-> "alphaUCParenBoth"],
       [name |-> "ALPHA_UC_PAREN_RIGHT", value |-> 11, xml_value |-> "alphaUCParenRight"],
       [name |-> "ALPHA_UC_PERIOD", value |-> 1, xml_value |-> "alphaUCPeriod"],
       [name |-> "ARABIC_ABJAD_DASH", value |-> 24, xml_value |-> "arabicAbjadDash"],
       [name |-> "ARABIC_ALPHA_DASH", value |-> 23, xml_value |-> "arabicAlphaDash"],
       [name |-> "ARABIC_DB_PERIOD", value |-> 29, xml_value |-> "arabicDBPeriod"],
       [name |-> "ARABIC_DB_PLAIN", value |-> 28, xml_value |-> "arabicDBPlain"],
       [name |-> "ARABIC_PAREN_BOTH", value |-> 12, xml_value |-> "arabicParenBoth"],
       [name |-> "ARABIC_PAREN_RIGHT", value |-> 2, xml_value |-> "arabicParenRight"],
       [name |-> "ARABIC_PERIOD", value |-> 3, xml_value |-> "arabicPeriod"],
       [name |-> "ARABIC_PLAIN", value |-> 13, xml_value |-> "arabicPlain"],
       [name |-> "CIRCLE_NUM_DB_PLAIN", value |-> 18, xml_value |-> "circleNumDBPlain"],
       [name |-> "CIRCLE_NUM_WD_BLACK_PLAIN", value |-> 20, xml_value |-> "circleNumWDBlackPlain"],
       [name |-> "CIRCLE_NUM_WD_WHITE_PLAIN", value |-> 19, xml_value |-> "circleNumWDWhitePlain"],
       [name |-> "HEBREW_ALPHA_DASH", value |-> 25, xml_value |-> "hebrewAlphaDash"],
       [name |-> "HINDI_ALPHA1_PERIOD", value |-> 40, xml_value |-> "hindiAlpha1Period"],
       [name |-> "HINDI_ALPHA_PERIOD", value |-> 36, xml_value |-> "hindiAlphaPeriod"],
       [name |-> "HINDI_NUM_PAREN_RIGHT", value |-> 39, xml_value |-> "hindiNumParenRight"],
       [name |-> "HINDI_NUM_PERIOD", value |-> 37, xml_value |-> "hindiNumPeriod"],
       [name |-> "KANJI_KOREAN_PERIOD", value |-> 27, xml_value |-> "kanjiKoreanPeriod"],
       [name |-> "KANJI_KOREAN_PLAIN", value |-> 26, xml_value |-> "kanjiKoreanPlain"],
       [name |-> "KANJI_SIMP_CHIN_DB_PERIOD", value |-> 38, xml_value |-> "kanjiSimpChinDBPeriod"],
       [name |-> "ROMAN_LC_PAREN_BOTH", value |-> 4, xml_value |-> "romanLCParenBoth"],
       [name |-> "ROMAN_LC_PAREN_RIGHT", value |-> 5, xml_value |-> "romanLCParenRight"],
       [name |-> "ROMAN_LC_PERIOD", value |-> 6, xml_value |-> "romanLCPeriod"],
       [name |-> "ROMAN_UC_PAREN_BOTH", value |-> 14, xml_value |-> "romanUCParenBoth"],
       [name |-> "ROMAN_UC_PAREN_RIGHT", value |-> 15, xml_value |-> "romanUCParenRight"],
       [name |-> "ROMAN_UC_PERIOD", value |-> 7, xml_value |-> "romanUCPeriod"],
       [name |-> "SIMP_CHIN_PERIOD", value |-> 17, xml_value |-> "simpChinPeriod"],
       [name |-> "SIMP_CHIN_PLAIN", value |-> 16, xml_value |-> "simpChinPlain"],
       [name |-> "STYLE_MIXED", value |-> -2, xml_value |-> "styleMixed"],
       [name |-> "THAI_ALPHA_PAREN_BOTH", value |-> 32, xml_value |-> "thaiAlphaParenBoth"],
       [name |-> "THAI_ALPHA_PAREN_RIGHT", value |-> 31, xml_value |-> "thaiAlphaParenRight"],
       [name |-> "THAI_ALPHA_PERIOD", value |-> 30, xml_value |-> "thaiAlphaPeriod"],
       [name |-> "THAI_NUM_PAREN_BOTH", value |-> 35, xml_value |-> "thaiNumParenBoth"],
       [name |-> "THAI_NUM_PAREN_RIGHT", value |-> 34, xml_value |-> "thaiNumParenRight"],
       [name |-> "THAI_NUM_PERIOD", value |-> 33, xml_value |-> "thaiNumPeriod"],
       [name |-> "TRAD_CHIN_PERIOD", value |-> 22, xml_value |-> "tradChinPeriod"],
       [name |-> "TRAD_CHIN_PLAIN", value |-> 21, xml_value |-> "tradChinPlain"]
    >>

EnumNames ==
    {"MSO_AUTO_SIZE", "MSO_TEXT_UNDERLINE_TYPE", "MSO_VERTICAL_ANCHOR",
     "PP_PARAGRAPH_ALIGNMENT", "MSO_NUMBERED_BULLET_STYLE"}

\* the class body behind an enumeration's name
Members(e) ==
    CASE e = "MSO_AUTO_SIZE" -> MSO_AUTO_SIZE
      [] e = "MSO_TEXT_UNDERLINE_TYPE" -> MSO_TEXT_UNDERLINE_TYPE
      [] e = "MSO_VERTICAL_ANCHOR" -> MSO_VERTICAL_ANCHOR
      [] e = "PP_PARAGRAPH_ALIGNMENT" -> PP_PARAGRAPH_ALIGNMENT
      [] e = "MSO_NUMBERED_BULLET_STYLE" -> MSO_NUMBERED_BULLET_STYLE

\* the least position in the set S of positions, 0 when S is empty
FirstOf(S) == IF S = {} THEN 0 ELSE CHOOSE k \in S : \A j \in S : k <= j

\* lookup by numeric code: the first member defined with that code, 0 (an error) when none
ByCode(t, code) == FirstOf({k \in 1..Len(t) : t[k].value = code})

\* lookup by XML token: the first member defined with that token, 0 (an error) when none
ByToken(t, tok) == FirstOf({k \in 1..Len(t) : t[k].xml_value = tok})

\* positions a member can have in a class body
Positions == 1..Len(MSO_NUMBERED_BULLET_STYLE)

\* evaluating the class body: one more member definition
DefineMember ==
    /\ en_op = "open"
    /\ en_pos < Len(Members(en_name))
    /\ en_pos' = en_pos + 1
    /\ en_count' = en_count + 1
    /\ UNCHANGED <<en_name, en_op, en_query, en_found>>
    /\ UNCHANGED <<lazyVars, lenVars, bsVars>>

\* the end of the class body: the enumeration is complete
EndClass ==
    /\ en_op = "open"
    /\ en_pos = Len(Members(en_name))
    /\ en_op' = "closed"
    /\ UNCHANGED <<en_name, en_pos, en_count, en_query, en_found>>
    /\ UNCHANGED <<lazyVars, lenVars, bsVars>>

\* the code of the member at position q is looked up
LookupByCode(q) ==
    /\ en_op # "open"
    /\ q <= Len(Members(en_name))
    /\ en_op' = "by_code"
    /\ en_query' = q
    /\ en_found' = ByCode(Members(en_name), Members(en_name)[q].value)
    /\ UNCHANGED <<en_name, en_pos, en_count>>
    /\ UNCHANGED <<lazyVars, lenVars, bsVars>>

\* the token of the member at position q is looked up, when it has one
LookupByToken(q) ==
    /\ en_op # "open"
    /\ q <= Len(Members(en_name))
    /\ Members(en_name)[q].xml_value \notin {NoXmlValue, ""}
    /\ en_op' = "by_token"
    /\ en_query' = q
    /\ en_found' = ByToken(Members(en_name), Members(en_name)[q].xml_value)
    /\ UNCHANGED <<en_name, en_pos, en_count>>
    /\ UNCHANGED <<lazyVars, lenVars, bsVars>>

(***************************************************************************)
(* BulletStyle                                                             *)
(*                                                                         *)
(* An object is a record of its class and, for a BulletStyle, its _style   *)
(* and _value.  A payload is a tagged value, so that Python's == between   *)
(* payloads (None, str, enumeration member) is equality of the records.    *)
(***************************************************************************)
BulletStyleType == {"NO_BULLET", "CUSTOM", "NUMBERED", "DEFAULT"}

NoValue == [t |-> "NoneType", v |-> "None"]
StrValue(str) == [t |-> "str", v |-> str]
EnumValue(m) == [t |-> "MSO_NUMBERED_BULLET_STYLE", v |-> m]

CustomStrings == {"", "*", "-"}
NumberedStyles == {MSO_NUMBERED_BULLET_STYLE[k].name : k \in 1..MaxStyles}
Payloads ==
    {NoValue} \cup {StrValue(str) : str \in CustomStrings}
              \cup {EnumValue(m) : m \in NumberedStyles}

\* objects that are no BulletStyle: None, a str, a numbered-bullet enum member
Others ==
    {[cls |-> "NoneType", style |-> "", value |-> NoValue],
     [cls |-> "str", style |-> "", value |-> StrValue("*")],
     [cls |-> "MSO_NUMBERED_BULLET_STYLE", style |-> "",
      value |-> EnumValue(MSO_NUMBERED_BULLET_STYLE[1].name)]}

\* BulletStyle.__init__(style, value)
BulletStyle(style, value) == [cls |-> "BulletStyle", style |-> style, value |-> value]

\* BulletStyle.custom(bullet_string)
custom(bullet_string) == BulletStyle("CUSTOM", StrValue(bullet_string))

\* BulletStyle.numbered(style)
numbered(style) == BulletStyle("NUMBERED", EnumValue(style))

\* BulletStyle.NO_BULLET = BulletStyle(BulletStyleType.NO_BULLET)
NO_BULLET == BulletStyle("NO_BULLET", NoValue)

\* BulletStyle.DEFAULT = BulletStyle(BulletStyleType.DEFAULT)
DEFAULT == BulletStyle("DEFAULT", NoValue)

\* an equality that compares the tags only (mutant of __eq__)
__eq__TagOnly(self, other) ==
    other.cls = "BulletStyle" /\ self.style = other.style

\* BulletStyle.__eq__(self, other)
__eq__(self, other) ==
    IF other.cls = "BulletStyle" /\ self.style = other.style
    THEN self.value = other.value
    ELSE FALSE

\* the operand being built: the left one first, then the right one
Placed(o) == [a |-> IF bs_pc = "a" THEN o ELSE bs_a,
              b |-> IF bs_pc = "b" THEN o ELSE bs_b,
              pc |-> IF bs_pc = "a" THEN "b" ELSE "cmp"]

\* an operand is built by the constructor
NewBulletStyle(style, value) ==
    /\ bs_pc \in {"a", "b"}
    /\ bs_a' = Placed(BulletStyle(style, value)).a
    /\ bs_b' = Placed(BulletStyle(style, value)).b
    /\ bs_pc' = Placed(BulletStyle(style, value)).pc
    /\ UNCHANGED bs_eq
    /\ UNCHANGED <<lazyVars, lenVars, enVars>>

\* an operand is built by BulletStyle.custom
NewCustom(str) ==
    /\ bs_pc \in {"a", "b"}
    /\ bs_a' = Placed(custom(str)).a
    /\ bs_b' = Placed(custom(str)).b
    /\ bs_pc' = Placed(custom(str)).pc
    /\ UNCHANGED bs_eq
    /\ UNCHANGED <<lazyVars, lenVars, enVars>>

\* an operand is built by BulletStyle.numbered
NewNumbered(m) ==
    /\ bs_pc \in {"a", "b"}
    /\ bs_a' = Placed(numbered(m)).a
    /\ bs_b' = Placed(numbered(m)).b
    /\ bs_pc' = Placed(numbered(m)).pc
    /\ UNCHANGED bs_eq
    /\ UNCHANGED <<lazyVars, lenVars, enVars>>

\* an operand is the constant BulletStyle.NO_BULLET
UseNoBullet ==
    /\ bs_pc \in {"a", "b"}
    /\ bs_a' = Placed(NO_BULLET).a
    /\ bs_b' = Placed(NO_BULLET).b
    /\ bs_pc' = Placed(NO_BULLET).pc
    /\ UNCHANGED bs_eq
    /\ UNCHANGED <<lazyVars, lenVars, enVars>>

\* an operand is the constant BulletStyle.DEFAULT
UseDefault ==
    /\ bs_pc \in {"a", "b"}
    /\ bs_a' = Placed(DEFAULT).a
    /\ bs_b' = Placed(DEFAULT).b
    /\ bs_pc' = Placed(DEFAULT).pc
    /\ UNCHANGED bs_eq
    /\ UNCHANGED <<lazyVars, lenVars, enVars>>

\* the right operand is some object that is no BulletStyle
UseOther(o) ==
    /\ bs_pc = "b"
    /\ bs_b' = o
    /\ bs_pc' = "cmp"
    /\ UNCHANGED <<bs_a, bs_eq>>
    /\ UNCHANGED <<lazyVars, lenVars, enVars>>

\* bs_a == bs_b
Compare ==
    /\ bs_pc = "cmp"
    /\ bs_eq' = __eq__(bs_a, bs_b)
    /\ bs_pc' = "done"
    /\ UNCHANGED <<bs_a, bs_b>>
    /\ UNCHANGED <<lazyVars, lenVars, enVars>>

BsIdle ==
    /\ bs_a = NO_BULLET
    /\ bs_b = NO_BULLET
    /\ bs_pc = "idle"
    /\ bs_eq = FALSE

EnIdle ==
    /\ en_name = "MSO_AUTO_SIZE"
    /\ en_pos = 0
    /\ en_count = 0
    /\ en_op = "idle"
    /\ en_query = 0
    /\ en_found = 0

LenIdle ==
    /\ len_unit = "Emu"
    /\ len_x = [num |-> 0, den |-> 1]
    /\ len_emu = 0
    /\ len_pc = "idle"
    /\ len_view = [name |-> "none", val |-> 0]

(***************************************************************************)
(* Length and the unit constructors                                        *)
(*                                                                         *)
(* A numeric argument is the rational num/den with den a power of two: an  *)
(* int when den = 1, otherwise a float.  For these arguments the float     *)
(* product x * factor is exact (|num * factor| < 2^53), so the product is  *)
(* the rational (num * factor)/den and int() is all that loses anything.   *)
(***************************************************************************)
_EMUS_PER_INCH == 914400
_EMUS_PER_CENTIPOINT == 127
_EMUS_PER_CM == 360000
_EMUS_PER_MM == 36000
_EMUS_PER_PT == 12700

Dens == {1, 2, 64}
Numbers == [num : (-MaxNum)..MaxNum, den : Dens]
Units == {"Inches", "Centipoints", "Cm", "Emu", "Mm", "Pt"}

\* x * k for a number x and an int k
Times(x, k) == [num |-> x.num * k, den |-> x.den]

\* int() rounding down instead of toward zero (mutant of int)
intFloor(x) == x.num \div x.den

\* int(x): the integer part of x, fraction discarded toward zero
int(x) == IF x.num >= 0 THEN x.num \div x.den ELSE -((-x.num) \div x.den)

\* Length.__new__(cls, emu)
Length(emu) == emu

Inches(x) == Length(int(Times(x, _EMUS_PER_INCH)))

\* a constructor scaling by the point factor (mutant of Centipoints)
CentipointsAsPoints(x) == Length(int(Times(x, _EMUS_PER_PT)))

Centipoints(x) == Length(int(Times(x, _EMUS_PER_CENTIPOINT)))

Cm(x) == Length(int(Times(x, _EMUS_PER_CM)))

Emu(x) == Length(int(x))

Mm(x) == Length(int(Times(x, _EMUS_PER_MM)))

Pt(x) == Length(int(Times(x, _EMUS_PER_PT)))

\* division rounding to the nearest centipoint (mutant of centipoints)
centipointsRounded(e) == (2 * e + _EMUS_PER_CENTIPOINT) \div (2 * _EMUS_PER_CENTIPOINT)

\* Length.centipoints: self // 127, Python's floor division
centipoints(e) == e \div _EMUS_PER_CENTIPOINT

\* Length.emu
emu(e) == e

\* one step per unit constructor
NewInches ==
    /\ len_pc = "input" /\ len_unit = "Inches"
    /\ len_emu' = Inches(len_x) /\ len_pc' = "built"
    /\ UNCHANGED <<len_unit, len_x, len_view>>
    /\ UNCHANGED <<lazyVars, bsVars, enVars>>

NewCentipoints ==
    /\ len_pc = "input" /\ len_unit = "Centipoints"
    /\ len_emu' = Centipoints(len_x) /\ len_pc' = "built"
    /\ UNCHANGED <<len_unit, len_x, len_view>>
    /\ UNCHANGED <<lazyVars, bsVars, enVars>>

NewCm ==
    /\ len_pc = "input" /\ len_unit = "Cm"
    /\ len_emu' = Cm(len_x) /\ len_pc' = "built"
    /\ UNCHANGED <<len_unit, len_x, len_view>>
    /\ UNCHANGED <<lazyVars, bsVars, enVars>>

NewEmu ==
    /\ len_pc = "input" /\ len_unit = "Emu"
    /\ len_emu' = Emu(len_x) /\ len_pc' = "built"
    /\ UNCHANGED <<len_unit, len_x, len_view>>
    /\ UNCHANGED <<lazyVars, bsVars, enVars>>

NewMm ==
    /\ len_pc = "input" /\ len_unit = "Mm"
    /\ len_emu' = Mm(len_x) /\ len_pc' = "built"
    /\ UNCHANGED <<len_unit, len_x, len_view>>
    /\ UNCHANGED <<lazyVars, bsVars, enVars>>

NewPt ==
    /\ len_pc = "input" /\ len_unit = "Pt"
    /\ len_emu' = Pt(len_x) /\ len_pc' = "built"
    /\ UNCHANGED <<len_unit, len_x, len_view>>
    /\ UNCHANGED <<lazyVars, bsVars, enVars>>

\* reading the centipoints property of the built length
ReadCentipoints ==
    /\ len_pc = "built"
    /\ len_view' = [name |-> "centipoints", val |-> centipoints(len_emu)]
    /\ len_pc' = "read"
    /\ UNCHANGED <<len_unit, len_x, len_emu>>
    /\ UNCHANGED <<lazyVars, bsVars, enVars>>

\* reading the emu property of the built length
ReadEmu ==
    /\ len_pc = "built"
    /\ len_view' = [name |-> "emu", val |-> emu(len_emu)]
    /\ len_pc' = "read"
    /\ UNCHANGED <<len_unit, len_x, len_emu>>
    /\ UNCHANGED <<lazyVars, bsVars, enVars>>

LazyIdle ==
    /\ dict = [i \in Instances |-> Absent]
    /\ world = "None"
    /\ calls = [i \in Instances |-> 0]
    /\ first = [i \in Instances |-> Unread]
    /\ ret = NoRet

InitLength ==
    /\ len_unit \in Units
    /\ len_x \in Numbers
    /\ len_emu = 0
    /\ len_pc = "input"
    /\ len_view = [name |-> "none", val |-> 0]
    /\ LazyIdle /\ BsIdle /\ EnIdle

NextLength ==
    \/ NewInches
    \/ NewCentipoints
    \/ NewCm
    \/ NewEmu
    \/ NewMm
    \/ NewPt
    \/ ReadCentipoints
    \/ ReadEmu

SpecLength == InitLength /\ [][NextLength]_vars

InitBullet ==
    /\ bs_a = NO_BULLET
    /\ bs_b = NO_BULLET
    /\ bs_pc = "a"
    /\ bs_eq = FALSE
    /\ LazyIdle /\ LenIdle /\ EnIdle

NextBullet ==
    \/ UseNoBullet
    \/ UseDefault
    \/ \E str \in CustomStrings : NewCustom(str)
    \/ \E m \in NumberedStyles : NewNumbered(m)
    \/ \E style \in BulletStyleType, value \in Payloads : NewBulletStyle(style, value)
    \/ \E o \in Others : UseOther(o)
    \/ Compare

SpecBullet == InitBullet /\ [][NextBullet]_vars

InitEnum ==
    /\ en_name \in EnumNames
    /\ en_pos = 0
    /\ en_count = 0
    /\ en_op = "open"
    /\ en_query = 0
    /\ en_found = 0
    /\ LazyIdle /\ LenIdle /\ BsIdle

NextEnum ==
    \/ DefineMember
    \/ EndClass
    \/ \E q \in Positions : LookupByCode(q)
    \/ \E q \in Positions : LookupByToken(q)

SpecEnum == InitEnum /\ [][NextEnum]_vars

Init ==
    /\ dict = [i \in Instances |-> Absent]
    /\ world \in WorldStates
    /\ calls = [i \in Instances |-> 0]
    /\ first = [i \in Instances |-> Unread]
    /\ ret = NoRet
    /\ LenIdle /\ BsIdle /\ EnIdle

Next ==
    \/ \E i \in Instances : Get(i)
    \/ ClassGet
    \/ \E i \in Instances, v \in Assigned : Set(i, v)
    \/ \E w \in WorldStates : ChangeWorld(w)

Spec == Init /\ [][Next]_vars

TypeOK ==
    /\ dict \in [Instances -> Results \cup {Absent}]
    /\ world \in WorldStates
    /\ calls \in [Instances -> 0..MaxCalls]
    /\ first \in [Instances -> Results \cup {Unread}]
(***************************************************************************)
(* Claims about lazyproperty (under Spec)                                  *)
(***************************************************************************)

\* C1: on every instance the wrapped computation is invoked by the first
\* access that returns and is never invoked again afterwards, whatever value
\* it returned (None included).
C1_InvokedExactlyOnce ==
    [][\A i \in Instances :
          /\ (first[i] = Unread /\ first'[i] # Unread) => calls'[i] = calls[i] + 1
          /\ first[i] # Unread => calls'[i] = calls[i]]_vars

\* C2: every access that returns a value on an instance returns the value the
\* first access on that instance returned, even after the external state the
\* computation reads has changed.
C2_ReturnsFirstValue ==
    (ret.op = "get" /\ ret.kind = "value") => ret.val = first[ret.obj]

\* C3: every assignment through an instance fails with AttributeError, read
\* or unread, and leaves the cached value, the invocation count and
\* everything a later read depends on unchanged.
C3_SetAlwaysFails ==
    [][\A i \in Instances, v \in Assigned :
          Set(i, v) => /\ ret'.op = "set" /\ ret'.obj = i
                       /\ ret'.kind = "AttributeError"
                       /\ dict' = dict
                       /\ calls' = calls
                       /\ first' = first
                       /\ world' = world]_vars

\* an assignment has just been refused on an instance that had been read
\* once, with its cached value still in place
C3_Witness ==
    /\ ret.op = "set" /\ ret.kind = "AttributeError"
    /\ first[ret.obj] \notin {None, Unread}
    /\ dict[ret.obj] = first[ret.obj]
    /\ calls[ret.obj] = 1
    /\ \E j \in Instances : first[j] = Unread

\* C4: an access on one instance leaves every other instance's cache and
\* invocation count unchanged, and the first access on an instance invokes
\* the computation for that instance and returns and caches that instance's
\* own result, whatever the other instances have cached.
C4_PerInstanceCache ==
    [][\A i \in Instances :
          Get(i) =>
             /\ \A j \in Instances \ {i} :
                   dict'[j] = dict[j] /\ calls'[j] = calls[j] /\ first'[j] = first[j]
             /\ first[i] = Unread =>
                   /\ calls'[i] = calls[i] + 1
                   /\ ret'.kind = "value" =>
                         /\ ret'.val = Result(i, world)
                         /\ dict'[i] = Result(i, world)]_vars

\* instance 2 has just been read for the first time after instance 1 had
\* cached its own result; each was computed once
C4_Witness ==
    /\ ret.op = "get" /\ ret.obj = 2 /\ ret.kind = "value"
    /\ dict[1] = Result(1, "s1") /\ dict[2] = Result(2, "s1")
    /\ first[1] = dict[1] /\ first[2] = dict[2]
    /\ calls[1] = 1 /\ calls[2] = 1

\* C11: an access on the class returns the descriptor itself, never invokes
\* the wrapped computation, never raises, and leaves every instance's cache
\* unchanged, wherever it comes in a sequence of instance accesses.
C11_ClassAccessReturnsDescriptor ==
    [][ClassGet => /\ ret'.op = "classget"
                   /\ ret'.kind = "descriptor"
                   /\ dict' = dict
                   /\ calls' = calls
                   /\ first' = first
                   /\ world' = world]_vars

\* the class has just been accessed while one instance holds a cached result,
\* another has never been read, and the computation would raise if invoked
C11_Witness ==
    /\ ret.op = "classget" /\ ret.kind = "descriptor"
    /\ world = "raise"
    /\ dict[1] = Result(1, "s1") /\ calls[1] = 1
    /\ dict[2] = Absent /\ calls[2] = 0

\* C12: when the wrapped computation raises during an access, the error
\* reaches the caller and nothing is stored in the instance's cache; the next
\* access on that instance invokes the computation again, and when an
\* invocation succeeds its result is what is cached and returned.
C12_FailedComputationNotCached ==
    [][\A i \in Instances :
          Get(i) =>
             /\ (NeedsCompute(dict, i) /\ fgetRaises) =>
                   /\ ret'.kind = "error"
                   /\ dict' = dict
                   /\ first' = first
             /\ (ret.op = "get" /\ ret.obj = i /\ ret.kind = "error") =>
                   /\ calls'[i] = calls[i] + 1
                   /\ ~fgetRaises =>
                         /\ ret'.kind = "value"
                         /\ ret'.val = Result(i, world)
                         /\ dict'[i] = Result(i, world)]_vars

\* the first access on instance 1 raised and left nothing behind; the second
\* one computed again, succeeded, and its result is cached
C12_Witness ==
    /\ ret.op = "get" /\ ret.obj = 1 /\ ret.kind = "value"
    /\ calls[1] = 2
    /\ first[1] = Result(1, "s1")
    /\ dict[1] = Result(1, "s1")
    /\ ret.val = dict[1]

(***************************************************************************)
(* Claims about Length (under SpecLength)                                  *)
(***************************************************************************)
UnitFactor(u) ==
    CASE u = "Inches" -> 914400
      [] u = "Cm" -> 360000
      [] u = "Mm" -> 36000
      [] u = "Pt" -> 12700
      [] u = "Centipoints" -> 127
      [] u = "Emu" -> 1

\* t is the rational p/d (d > 0) with its fractional part discarded toward zero
IsTruncation(t, p, d) ==
    /\ p >= 0 => (t * d <= p /\ p < (t + 1) * d)
    /\ p <= 0 => ((t - 1) * d < p /\ p <= t * d)

\* C6: the EMU value of a constructed length is x times the unit factor with
\* the fraction discarded toward zero, for positive and negative x; for an
\* integer x it is exactly x * factor.
C6_ConstructorTruncates ==
    len_pc # "input" =>
        /\ IsTruncation(len_emu, len_x.num * UnitFactor(len_unit), len_x.den)
        /\ len_x.den = 1 => len_emu = len_x.num * UnitFactor(len_unit)
        /\ (len_unit = "Pt" /\ len_x = [num |-> 1, den |-> 1]) => len_emu = 12700
        /\ (len_unit = "Cm" /\ len_x = [num |-> 1, den |-> 1]) => len_emu = 360000
        /\ (len_unit = "Mm" /\ len_x = [num |-> 1, den |-> 1]) => len_emu = 36000
        /\ (len_unit = "Centipoints" /\ len_x = [num |-> 100, den |-> 1]) => len_emu = 12700

\* Inches(-1/64) has been constructed: -14287.5 EMU truncated to -14287
C6_Witness ==
    /\ len_pc = "built" /\ len_unit = "Inches"
    /\ len_x = [num |-> -1, den |-> 64]
    /\ len_emu = -14287

\* C7: the centipoints accessor returns the floor of e / 127, also for
\* negative e: 127*c <= e < 127*(c+1); Emu(127) gives 1 and Emu(126) gives 0.
C7_CentipointsFloors ==
    (len_pc = "read" /\ len_view.name = "centipoints") =>
        /\ 127 * len_view.val <= len_emu
        /\ len_emu < 127 * (len_view.val + 1)
        /\ len_emu = 127 => len_view.val = 1
        /\ len_emu = 126 => len_view.val = 0

\* centipoints has been read from Emu(-1): the floor is -1
C7_Witness ==
    /\ len_pc = "read" /\ len_view.name = "centipoints"
    /\ len_unit = "Emu" /\ len_emu = -1 /\ len_view.val = -1

\* C8: for an integer n, Emu(n).emu = n, Centipoints(n).centipoints = n and
\* Pt(n).centipoints = 100 * n.
C8_IntegerRoundTrip ==
    (len_pc = "read" /\ len_x.den = 1) =>
        /\ (len_unit = "Emu" /\ len_view.name = "emu") => len_view.val = len_x.num
        /\ (len_unit = "Centipoints" /\ len_view.name = "centipoints")
              => len_view.val = len_x.num
        /\ (len_unit = "Pt" /\ len_view.name = "centipoints")
              => len_view.val = 100 * len_x.num

\* centipoints has been read back from Centipoints(-3)
C8_Witness ==
    /\ len_pc = "read" /\ len_view.name = "centipoints"
    /\ len_unit = "Centipoints" /\ len_x = [num |-> -3, den |-> 1]
    /\ len_emu = -381 /\ len_view.val = -3
(***************************************************************************)
(* Claims about BulletStyle (under SpecBullet)                             *)
(***************************************************************************)

\* C5 as stated: a == b is true exactly when b is a BulletStyle, the tags are
\* equal and, for a CUSTOM or NUMBERED tag only, the payloads are equal.
C5_EqTagAndRequiredPayload ==
    bs_pc = "done" =>
        bs_eq = (/\ bs_b.cls = "BulletStyle"
                 /\ bs_a.style = bs_b.style
                 /\ bs_a.style \in {"CUSTOM", "NUMBERED"} => bs_a.value = bs_b.value)

\* C5 (amended): a == b is true exactly when b is a BulletStyle, the tags are
\* equal and the payloads are equal, whatever the tag; a comparison with an
\* object that is no BulletStyle is false.
C5_EqTagAndPayload ==
    bs_pc = "done" =>
        /\ bs_eq = (/\ bs_b.cls = "BulletStyle"
                    /\ bs_a.style = bs_b.style
                    /\ bs_a.value = bs_b.value)
        /\ bs_b.cls # "BulletStyle" => bs_eq = FALSE

\* BulletStyle(NO_BULLET, "*") has been compared with BulletStyle.NO_BULLET:
\* same tag, a tag that needs no payload, and yet not equal
C5_Witness ==
    /\ bs_pc = "done"
    /\ bs_a = BulletStyle("NO_BULLET", StrValue("*"))
    /\ bs_b = NO_BULLET
    /\ bs_eq = FALSE

(***************************************************************************)
(* Claims about the enumerations (under SpecEnum)                          *)
(***************************************************************************)

\* C9: in each of the five enumerations no two members share a numeric code
\* and no two members with a non-empty token share it: the lookup of a
\* member's code, or of its token, returns that very member.
C9_CodesAndTokensUnique ==
    /\ en_op \in {"by_code", "by_token"} => en_found = en_query
    /\ en_op # "open" =>
          \A j, k \in 1..Len(Members(en_name)) :
             j # k =>
                /\ Members(en_name)[j].value # Members(en_name)[k].value
                /\ Members(en_name)[j].xml_value \notin {NoXmlValue, ""}
                      => Members(en_name)[j].xml_value # Members(en_name)[k].xml_value

\* the token "ctr" was looked up in PP_PARAGRAPH_ALIGNMENT and gave CENTER
C9_Witness ==
    /\ en_name = "PP_PARAGRAPH_ALIGNMENT" /\ en_op = "by_token"
    /\ en_query = 1 /\ en_found = 1
    /\ Members(en_name)[en_found].name = "CENTER"

\* C10 as stated: 4, 18, 4, 7 and 37 members
ClaimedCount(e) ==
    CASE e = "MSO_AUTO_SIZE" -> 4
      [] e = "MSO_TEXT_UNDERLINE_TYPE" -> 18
      [] e = "MSO_VERTICAL_ANCHOR" -> 4
      [] e = "PP_PARAGRAPH_ALIGNMENT" -> 7
      [] e = "MSO_NUMBERED_BULLET_STYLE" -> 37

\* C10 as stated: the complete enumerations have 4 (auto-size), 18
\* (underline), 4 (vertical anchor), 7 (paragraph alignment) and 37
\* (numbered-bullet style) members.
C10_MemberCountsAsStated ==
    en_op # "open" => en_count = ClaimedCount(en_name)

\* the member counts of the class bodies
ActualCount(e) ==
    CASE e = "MSO_AUTO_SIZE" -> 4
      [] e = "MSO_TEXT_UNDERLINE_TYPE" -> 19
      [] e = "MSO_VERTICAL_ANCHOR" -> 4
      [] e = "PP_PARAGRAPH_ALIGNMENT" -> 8
      [] e = "MSO_NUMBERED_BULLET_STYLE" -> 42

\* C10 (amended): the complete enumerations have 4 (auto-size), 19
\* (underline), 4 (vertical anchor), 8 (paragraph alignment) and 42
\* (numbered-bullet style) members.
C10_MemberCounts ==
    en_op # "open" => en_count = ActualCount(en_name)

\* the class body of MSO_NUMBERED_BULLET_STYLE is complete, 42 members
C10_Witness ==
    /\ en_name = "MSO_NUMBERED_BULLET_STYLE"
    /\ en_op = "closed"
    /\ en_count = 42
====
